---- MODULE Spec2Model ----
(***************************************************************************)
(* State-machine model of create_datasets.py: a sequential script that     *)
(* loads several tables, reshapes them and writes each one under a fixed   *)
(* key of one HDF5 store (assets.h5).                                      *)
(*                                                                         *)
(* Numbers are exact decimals: a float is modelled as [m, e], the value    *)
(* m * 10^e, so IEEE-754 rounding of a product is not part of the model.   *)
(* Strings that the script slices are sequences of one-character strings.  *)
(***************************************************************************)
EXTENDS Integers, Sequences, FiniteSets, TLC

VARIABLES pc, df, mcap, store, fileExists, isOpen, runlog, npfiles, runs

vars == <<pc, df, mcap, store, fileExists, isOpen, runlog, npfiles, runs>>

(***************************************************************************)
(* Bounds                                                                  *)
(***************************************************************************)
MaxRuns == 2          \* how many times the script is executed on one store
MaxPriceRows == 3     \* rows of wiki_prices.csv
MaxDate == 2          \* dates 1..MaxDate in wiki_prices.csv
MaxTicker == 2        \* tickers, by lexicographic rank 1..MaxTicker
MaxListingRows == 3   \* rows of the concatenated exchange listings
MaxDigit == 1         \* digits 1..MaxDigit used in generated market caps
NumDays == 5          \* calendar days covered by the FRED download

(***************************************************************************)
(* Generic helpers                                                         *)
(***************************************************************************)
NaN == [nan |-> TRUE]

\* a text cell; texts are sequences of one-character strings
Str(t) == [s |-> t]

IsNaN(x) == x = NaN

Range(s) == {s[i] : i \in 1..Len(s)}

SeqsUpTo(S, n) == UNION {[1..k -> S] : k \in 0..n}

RECURSIVE SelectAt(_, _, _)
\* the subsequence of s at the positions from i on that are in K, in order
SelectAt(s, K, i) ==
    IF i > Len(s) THEN <<>>
    ELSE (IF i \in K THEN <<s[i]>> ELSE <<>>) \o SelectAt(s, K, i + 1)

(***************************************************************************)
(* The store: assets.h5                                                    *)
(***************************************************************************)
DATA_STORE == "assets.h5"

KeyOrder == <<"quandl/wiki/prices", "quandl/wiki/stocks", "sp500/fred",
              "sp500/stocks", "us_equities/stocks", "fred/assets">>

Keys == Range(KeyOrder)

Absent == <<>>

\* value of a table variable that has not been assigned in this process
NoTable == [kind |-> "none"]

\* store.put(key, value): default append=False replaces the node
StorePutMutAppend(st, k, v) == [st EXCEPT ![k] = @ \o <<v>>]

StorePut(st, k, v) == [st EXCEPT ![k] = <<v>>]

(***************************************************************************)
(* wiki_prices.csv: rows identified by (date, ticker)                      *)
(***************************************************************************)
PriceRow == [date : 1..MaxDate, ticker : 1..MaxTicker, close : {10, 20}]

KeyLEMutDateOnly(a, b) == a.date <= b.date

\* lexicographic order of the (date, ticker) MultiIndex
KeyLE(a, b) == a.date < b.date \/ (a.date = b.date /\ a.ticker <= b.ticker)

\* position at which a row enters an already sorted table (stable)
InsertPos(r, sorted) ==
    Cardinality({i \in 1..Len(sorted) : KeyLE(sorted[i], r)}) + 1

InsertAt(r, s, p) == SubSeq(s, 1, p - 1) \o <<r>> \o SubSeq(s, p, Len(s))

RECURSIVE sort_index(_)
\* DataFrame.sort_index() on the (date, ticker) index
sort_index(rows) ==
    IF rows = <<>> THEN <<>>
    ELSE LET n == Len(rows)
             done == sort_index(SubSeq(rows, 1, n - 1))
         IN  InsertAt(rows[n], done, InsertPos(rows[n], done))

(***************************************************************************)
(* Exchange listings: rows [symbol, marketcap]                             *)
(***************************************************************************)
Symbols == {"AAA", "BBB", "CCC"}

Digits == <<"0", "1", "2", "3", "4", "5", "6", "7", "8", "9">>

IsDigit(c) == \E i \in 1..Len(Digits) : Digits[i] = c

DigitVal(c) == (CHOOSE i \in 1..Len(Digits) : Digits[i] = c) - 1

\* the text "$<d>[.<f>]<suffix>"; f = 0 stands for no fractional part
CapText(d, f, suffix) ==
    Str(<<"$", Digits[d + 1]>>
        \o (IF f = 0 THEN <<>> ELSE <<".", Digits[f + 1]>>) \o <<suffix>>)

Fracs == {0, 5}

GoodCaps == {CapText(d, f, s) : d \in 1..MaxDigit, f \in Fracs, s \in {"B", "M"}}

OtherCaps == { Str(<<"$", "5", "0", "K">>),       \* unrecognised suffix
               Str(<<"$", "1", "5">>),            \* no suffix at all
               Str(<<"$", "1", ",", "5", "B">>),  \* suffix B, text is no number
               Str(<<"$", "B">>) }                \* suffix B, empty text

RawCaps == GoodCaps \cup OtherCaps \cup {NaN}

ListingRow == [symbol : Symbols, marketcap : RawCaps]

duplicatedMutLast(rows, i) ==
    \E j \in (i + 1)..Len(rows) : rows[j].symbol = rows[i].symbol

\* ~df.index.duplicated(): keep='first' marks every later occurrence
duplicated(rows, i) == \E j \in 1..(i - 1) : rows[j].symbol = rows[i].symbol

\* Series.str[-1]
StrLast(t) == t[Len(t)]

\* Series.str[1:-1]
StrSlice(t) == SubSeq(t, 2, Len(t) - 1)

ParseError == [error |-> "ValueError"]

RECURSIVE DigitsToInt(_)
DigitsToInt(t) ==
    IF t = <<>> THEN 0
    ELSE 10 * DigitsToInt(SubSeq(t, 1, Len(t) - 1)) + DigitVal(t[Len(t)])

RECURSIVE Norm(_)
\* canonical form of the decimal m * 10^e
Norm(x) ==
    IF x.m = 0 THEN [m |-> 0, e |-> 0]
    ELSE IF x.m % 10 = 0 THEN Norm([m |-> x.m \div 10, e |-> x.e + 1])
    ELSE x

\* pd.to_numeric on one string (errors='raise'): the empty string converts
\* to NaN, a decimal literal to its value, anything else raises
to_numeric(t) ==
    LET dots == {i \in 1..Len(t) : t[i] = "."}
        digs == {i \in 1..Len(t) : IsDigit(t[i])}
    IN  IF t = <<>> THEN NaN
        ELSE IF /\ Cardinality(dots) <= 1
                /\ digs # {}
                /\ dots \cup digs = 1..Len(t)
        THEN LET whole == SelectAt(t, digs, 1)
                 p == IF dots = {} THEN Len(t) ELSE CHOOSE i \in dots : TRUE
             IN  Norm([m |-> DigitsToInt(whole), e |-> p - Len(t)])
        ELSE ParseError

\* float multiplication by 10^k; NaN propagates
Times(x, k) == IF IsNaN(x) THEN NaN ELSE Norm([m |-> x.m, e |-> x.e + k])

\* mcaps = {'M': 1e6, 'B': 1e9}, as powers of ten
mcaps == [M |-> 6, B |-> 9]



(***************************************************************************)
(* FRED bond indexes: one row per date, one column per series.  Two of     *)
(* the five series are modelled.  Day 1 is a Friday.                       *)
(***************************************************************************)
securities == [BAMLCC0A0CMTRIV |-> "US Corp Master TRI",
               DGS10 |-> "10-Year Treasury CMR"]

SeriesIds == DOMAIN securities

SeriesNames == {securities[c] : c \in SeriesIds}

\* observations a series can report on one day
SeriesVals == [BAMLCC0A0CMTRIV |-> {1, 3}, DGS10 |-> {2}]

Days == 1..NumDays

\* 0 = Monday .. 6 = Sunday
Weekday(d) == (d + 3) % 7

IsBusinessDay(d) == Weekday(d) < 5

\* BusinessDay.rollback: the day itself, or the Friday before a weekend day
rollback(d) == IF Weekday(d) = 5 THEN d - 1 ELSE IF Weekday(d) = 6 THEN d - 2 ELSE d

Num(v) == [num |-> v, den |-> 1]

FredCells(c) == {NaN} \cup {Num(v) : v \in SeriesVals[c]}

FredRowVals == {f \in [SeriesIds -> {NaN} \cup {Num(v) : v \in 1..3}] :
                   \A c \in SeriesIds : f[c] \in FredCells(c)}

\* DataFrame.rename(columns=securities)
rename(rows) ==
    [i \in 1..Len(rows) |->
        [date |-> rows[i].date,
         vals |-> [n \in SeriesNames |->
                     rows[i].vals[CHOOSE c \in SeriesIds : securities[c] = n]]]]

AllMissing(row) == \A n \in DOMAIN row.vals : IsNaN(row.vals[n])

\* DataFrame.dropna(how='all')
dropna_all(rows) ==
    SelectAt(rows, {i \in 1..Len(rows) : ~AllMissing(rows[i])}, 1)

RECURSIVE SumOver(_, _, _)
SumOver(rows, S, n) ==
    IF S = {} THEN 0
    ELSE LET i == CHOOSE j \in S : TRUE
         IN  rows[i].vals[n].num + SumOver(rows, S \ {i}, n)

\* mean of the non-missing observations of column n in one bin
BinMean(rows, b, n) ==
    LET obs == {i \in 1..Len(rows) :
                   rollback(rows[i].date) = b /\ ~IsNaN(rows[i].vals[n])}
    IN  IF obs = {} THEN NaN
        ELSE [num |-> SumOver(rows, obs, n), den |-> Cardinality(obs)]

RECURSIVE BinsFrom(_, _, _)
BinsFrom(rows, b, hi) ==
    IF b > hi THEN <<>>
    ELSE (IF IsBusinessDay(b)
          THEN << [date |-> b,
                   vals |-> [n \in DOMAIN rows[1].vals |-> BinMean(rows, b, n)]] >>
          ELSE <<>>) \o BinsFrom(rows, b + 1, hi)

resample_B_meanMutSkipEmpty(rows) ==
    IF rows = <<>> THEN <<>>
    ELSE LET all == BinsFrom(rows, rollback(rows[1].date),
                             rollback(rows[Len(rows)].date))
         IN  SelectAt(all, {i \in 1..Len(all) : ~AllMissing(all[i])}, 1)

\* DataFrame.resample('B').mean(): one bin per business day from the bin of
\* the first row to the bin of the last row
resample_B_mean(rows) ==
    IF rows = <<>> THEN <<>>
    ELSE BinsFrom(rows, rollback(rows[1].date), rollback(rows[Len(rows)].date))

(***************************************************************************)
(* Inputs of one execution.  Every specification runs the whole script;    *)
(* each draws one source from a large set and the others from a few.       *)
(***************************************************************************)
PriceCSVs == SeqsUpTo(PriceRow, MaxPriceRows)

FewPriceCSVs ==
    { << [date |-> 2, ticker |-> 1, close |-> 10],
         [date |-> 1, ticker |-> 2, close |-> 20] >>,
      << [date |-> 1, ticker |-> 1, close |-> 10] >> }

WikiStocksCSVs == {"wiki_stocks_a", "wiki_stocks_b"}

SP500Series == {"sp500_a", "sp500_b"}

\* the first table of the Wikipedia page: its column count and its rows
HtmlTables == { [ncols |-> 9, body |-> "constituents_a"],
                [ncols |-> 9, body |-> "constituents_b"],
                [ncols |-> 8, body |-> "constituents_a"] }

Listings == SeqsUpTo(ListingRow, MaxListingRows)

FewListings ==
    { << [symbol |-> "AAA", marketcap |-> CapText(1, 5, "B")],
         [symbol |-> "BBB", marketcap |-> CapText(1, 0, "M")],
         [symbol |-> "AAA", marketcap |-> Str(<<"$", "5", "0", "K">>)] >>,
      << [symbol |-> "AAA", marketcap |-> CapText(1, 0, "B")],
         [symbol |-> "BBB", marketcap |-> Str(<<"$", "1", ",", "5", "B">>)] >> }

\* us_equities_meta_data.csv: with or without a 'ticker' column
MetaCSVs ==
    { [hasTicker |-> TRUE,
       rows |-> << [ticker |-> "AAA", marketcap |-> [m |-> 15, e |-> 8]],
                   [ticker |-> "BBB", marketcap |-> [m |-> 1, e |-> 6]] >>],
      [hasTicker |-> TRUE,
       rows |-> << [ticker |-> "AAA", marketcap |-> [m |-> 7, e |-> 7]],
                   [ticker |-> "CCC", marketcap |-> NaN] >>],
      [hasTicker |-> FALSE,
       rows |-> << [ticker |-> "AAA", marketcap |-> [m |-> 15, e |-> 8]] >>] }

FredRows(f) == [d \in Days |-> [date |-> d, vals |-> f[d]]]

FredDownloads == {FredRows(f) : f \in [Days -> FredRowVals]}

FewFredDownloads ==
    { FredRows([d \in Days |->
          [c \in SeriesIds |-> IF d % 2 = 1 /\ c = "DGS10" THEN Num(2) ELSE NaN]]),
      FredRows([d \in Days |->
          [c \in SeriesIds |-> IF c = "DGS10" THEN NaN ELSE Num(1)]]) }

(***************************************************************************)
(* The script.  pc = <<statement, source>> is the statement about to run.  *)
(***************************************************************************)
PRICES == "quandl/wiki/prices"
STOCKS == "quandl/wiki/stocks"
SP500 == "sp500/fred"
SP500_STOCKS == "sp500/stocks"
US_EQUITIES == "us_equities/stocks"
FRED == "fred/assets"

\* the sources in the order the script handles them
SourceOrder == <<PRICES, STOCKS, SP500, SP500_STOCKS, US_EQUITIES,
                 "mnist", "fashion_mnist", FRED>>

SourcePos(k) == CHOOSE i \in 1..Len(SourceOrder) : SourceOrder[i] = k

Init ==
    /\ pc = <<"load", PRICES>>
    /\ df = NoTable
    /\ mcap = NoTable
    /\ store = [k \in Keys |-> Absent]
    /\ fileExists = FALSE
    /\ isOpen = FALSE
    /\ runlog = <<>>
    /\ npfiles = {}
    /\ runs = 1

\* an exception that nothing catches ends the process
Abort == pc' = <<"aborted", pc[2]>>

\* a read_csv / DataReader / read_html / fetch_openml call raises
LoadFails ==
    /\ pc[1] \in {"load", "listing"}
    /\ Abort
    /\ UNCHANGED <<df, mcap, store, fileExists, isOpen, runlog, npfiles, runs>>

\* pd.read_csv('wiki_prices.csv', index_col=['date', 'ticker'])
ReadWikiPrices(csvs) ==
    /\ pc = <<"load", PRICES>>
    /\ \E csv \in csvs : df' = [kind |-> "prices", rows |-> csv]
    /\ pc' = <<"sort", PRICES>>
    /\ UNCHANGED <<mcap, store, fileExists, isOpen, runlog, npfiles, runs>>

\* .sort_index()
SortIndex ==
    /\ pc = <<"sort", PRICES>>
    /\ df' = [df EXCEPT !.rows = sort_index(@)]
    /\ pc' = <<"with", PRICES>>
    /\ UNCHANGED <<mcap, store, fileExists, isOpen, runlog, npfiles, runs>>

ReadWikiStocks(stocks) ==
    /\ pc = <<"load", STOCKS>>
    /\ \E csv \in stocks : df' = [kind |-> "csv", body |-> csv]
    /\ pc' = <<"with", STOCKS>>
    /\ UNCHANGED <<mcap, store, fileExists, isOpen, runlog, npfiles, runs>>

ReadSP500(downloads) ==
    /\ pc = <<"load", SP500>>
    /\ \E series \in downloads :
          df' = [kind |-> "frame", columns |-> <<"close">>, body |-> series]
    /\ pc' = <<"with", SP500>>
    /\ UNCHANGED <<mcap, store, fileExists, isOpen, runlog, npfiles, runs>>

ReadHtml(pages) ==
    /\ pc = <<"load", SP500_STOCKS>>
    /\ \E t \in pages :
          df' = [kind |-> "html", ncols |-> t.ncols, body |-> t.body]
    /\ pc' = <<"columns", SP500_STOCKS>>
    /\ UNCHANGED <<mcap, store, fileExists, isOpen, runlog, npfiles, runs>>

\* df.columns = [nine names] raises unless the table has nine columns
SetColumns ==
    /\ pc = <<"columns", SP500_STOCKS>>
    /\ IF df.ncols = 9
       THEN /\ df' = [kind |-> "sp500", index |-> "ticker",
                      columns |-> <<"name", "gics_sector", "gics_sub_industry",
                                    "location", "first_added", "cik", "founded">>,
                      body |-> df.body]
            /\ pc' = <<"with", SP500_STOCKS>>
       ELSE /\ Abort
            /\ UNCHANGED df
    /\ UNCHANGED <<mcap, store, fileExists, isOpen, runlog, npfiles, runs>>

\* columns that survive dropna(how='all', axis=1)
ListingColumns(rows) ==
    (IF rows = <<>> THEN {} ELSE {"symbol"})
        \cup (IF \E i \in 1..Len(rows) : ~IsNaN(rows[i].marketcap)
              THEN {"marketcap"} ELSE {})

\* concat of the three exchange downloads (drawn already concatenated),
\* dropna(how='all', axis=1) and set_index('symbol')
FetchListings(listings) ==
    /\ pc = <<"listing", US_EQUITIES>>
    /\ \E rows \in listings :
          IF "symbol" \in ListingColumns(rows)
          THEN /\ df' = [kind |-> "listing",
                         columns |-> ListingColumns(rows) \ {"symbol"},
                         rows |-> rows]
               /\ pc' = <<"dedup", US_EQUITIES>>
          ELSE /\ Abort
               /\ UNCHANGED df
    /\ UNCHANGED <<mcap, store, fileExists, isOpen, runlog, npfiles, runs>>

\* df = df[~df.index.duplicated()]
Dedup ==
    /\ pc = <<"dedup", US_EQUITIES>>
    /\ df' = [df EXCEPT
                 !.rows = SelectAt(@, {i \in 1..Len(@) : ~duplicated(@, i)}, 1)]
    /\ pc' = <<"mcap_select", US_EQUITIES>>
    /\ UNCHANGED <<mcap, store, fileExists, isOpen, runlog, npfiles, runs>>

\* mcap = df[['marketcap']].dropna(); mcap['suffix'] = mcap.marketcap.str[-1]
McapSelect ==
    /\ pc = <<"mcap_select", US_EQUITIES>>
    /\ IF "marketcap" \in df.columns
       THEN /\ mcap' =
                 LET kept == SelectAt(df.rows,
                                 {i \in 1..Len(df.rows) :
                                     ~IsNaN(df.rows[i].marketcap)}, 1)
                 IN  [kind |-> "mcap",
                      rows |-> [i \in 1..Len(kept) |->
                                  [symbol |-> kept[i].symbol,
                                   marketcap |-> kept[i].marketcap,
                                   suffix |-> StrLast(kept[i].marketcap.s)]]]
            /\ pc' = <<"mcap_convert", US_EQUITIES>>
       ELSE /\ Abort
            /\ UNCHANGED mcap
    /\ UNCHANGED <<df, store, fileExists, isOpen, runlog, npfiles, runs>>

ApplyFactorMutNoMask(rows, symbol) ==
    [i \in 1..Len(rows) |->
        [rows[i] EXCEPT !.marketcap = Times(@, mcaps[symbol])]]

\* mcap.loc[mcap.suffix == symbol, 'marketcap'] *= factor
ApplyFactor(rows, symbol) ==
    [i \in 1..Len(rows) |->
        IF rows[i].suffix = symbol
        THEN [rows[i] EXCEPT !.marketcap = Times(@, mcaps[symbol])]
        ELSE rows[i]]

\* the suffix filter, to_numeric of the inner text, and the factor loop
McapConvert ==
    /\ pc = <<"mcap_convert", US_EQUITIES>>
    /\ LET kept == SelectAt(mcap.rows,
                       {i \in 1..Len(mcap.rows) :
                           mcap.rows[i].suffix \in {"B", "M"}}, 1)
           nums == [i \in 1..Len(kept) |->
                      [kept[i] EXCEPT
                          !.marketcap = to_numeric(StrSlice(kept[i].marketcap.s))]]
       IN  IF \E i \in 1..Len(nums) : nums[i].marketcap = ParseError
           THEN /\ mcap' = [mcap EXCEPT !.rows = kept]
                /\ Abort
           ELSE /\ mcap' = [mcap EXCEPT
                               !.rows = ApplyFactor(ApplyFactor(nums, "M"), "B")]
                /\ pc' = <<"mcap_merge", US_EQUITIES>>
    /\ UNCHANGED <<df, store, fileExists, isOpen, runlog, npfiles, runs>>

AlignedMutZero(symbol) ==
    IF \E i \in 1..Len(mcap.rows) : mcap.rows[i].symbol = symbol
    THEN mcap.rows[CHOOSE i \in 1..Len(mcap.rows) :
                       mcap.rows[i].symbol = symbol].marketcap
    ELSE [m |-> 0, e |-> 0]

\* the value of mcap.marketcap aligned to the row of one symbol
Aligned(symbol) ==
    IF \E i \in 1..Len(mcap.rows) : mcap.rows[i].symbol = symbol
    THEN mcap.rows[CHOOSE i \in 1..Len(mcap.rows) :
                       mcap.rows[i].symbol = symbol].marketcap
    ELSE NaN

\* df['marketcap'] = mcap.marketcap
McapMerge ==
    /\ pc = <<"mcap_merge", US_EQUITIES>>
    /\ df' = [df EXCEPT
                 !.columns = @ \cup {"marketcap"},
                 !.rows = [i \in 1..Len(df.rows) |->
                             [df.rows[i] EXCEPT
                                 !.marketcap = Aligned(df.rows[i].symbol)]]]
    /\ pc' = <<"describe", US_EQUITIES>>
    /\ UNCHANGED <<mcap, store, fileExists, isOpen, runlog, npfiles, runs>>

\* df.marketcap.describe(...).apply(lambda x: f'{int(x):,d}'): int() raises
\* on the NaN mean or standard deviation of fewer than two values
Describe ==
    /\ pc = <<"describe", US_EQUITIES>>
    /\ IF Cardinality({i \in 1..Len(df.rows) : ~IsNaN(df.rows[i].marketcap)}) >= 2
       THEN pc' = <<"load", US_EQUITIES>>
       ELSE Abort
    /\ UNCHANGED <<df, mcap, store, fileExists, isOpen, runlog, npfiles, runs>>

ReadMeta(csvs) ==
    /\ pc = <<"load", US_EQUITIES>>
    /\ \E csv \in csvs :
          df' = [kind |-> "csv_meta", hasTicker |-> csv.hasTicker,
                 rows |-> csv.rows]
    /\ pc' = <<"with", US_EQUITIES>>
    /\ UNCHANGED <<mcap, store, fileExists, isOpen, runlog, npfiles, runs>>

\* the statement that follows the with-block of key k
AfterWith(k) ==
    CASE k = PRICES -> <<"load", STOCKS>>
      [] k = STOCKS -> <<"load", SP500>>
      [] k = SP500 -> <<"load", SP500_STOCKS>>
      [] k = SP500_STOCKS -> <<"listing", US_EQUITIES>>
      [] k = US_EQUITIES -> <<"load", "mnist">>
      [] k = FRED -> <<"done", FRED>>

SetIndexError == [error |-> "KeyError"]

\* the argument of store.put: df, or df.set_index('ticker') for the
\* equities table, which raises when the CSV has no 'ticker' column
PutValueMutNormalized(k) ==
    IF k = US_EQUITIES
    THEN IF df.hasTicker
         THEN [kind |-> "meta", index |-> "ticker",
               rows |-> [i \in 1..Len(df.rows) |->
                           [df.rows[i] EXCEPT
                               !.marketcap = Aligned(df.rows[i].ticker)]]]
         ELSE SetIndexError
    ELSE df

PutValue(k) ==
    IF k = US_EQUITIES
    THEN IF df.hasTicker
         THEN [kind |-> "meta", index |-> "ticker", rows |-> df.rows]
         ELSE SetIndexError
    ELSE df

\* with pd.HDFStore(DATA_STORE) as store: mode 'a' creates a missing file
HDFStoreEnter(k) ==
    /\ pc = <<"with", k>>
    /\ isOpen' = TRUE
    /\ fileExists' = TRUE
    /\ pc' = <<"put", k>>
    /\ UNCHANGED <<df, mcap, store, runlog, npfiles, runs>>

\* store.put(k, ...) inside the with-block
Put(k) ==
    /\ pc = <<"put", k>>
    /\ isOpen
    /\ IF PutValue(k) = SetIndexError
       THEN /\ pc' = <<"unwind", k>>
            /\ UNCHANGED <<store, runlog>>
       ELSE /\ store' = StorePut(store, k, PutValue(k))
            /\ runlog' = Append(runlog, [key |-> k, value |-> PutValue(k)])
            /\ pc' = <<"exit", k>>
    /\ UNCHANGED <<df, mcap, fileExists, isOpen, npfiles, runs>>

HDFStoreExitMutSwallow(k) ==
    /\ pc[2] = k
    /\ pc[1] \in {"exit", "unwind"}
    /\ isOpen' = FALSE
    /\ pc' = AfterWith(k)
    /\ UNCHANGED <<df, mcap, store, fileExists, runlog, npfiles, runs>>

HDFStoreExitMutStayOpen(k) ==
    /\ pc[2] = k
    /\ pc[1] \in {"exit", "unwind"}
    /\ pc' = IF pc[1] = "exit" THEN AfterWith(k) ELSE <<"aborted", k>>
    /\ UNCHANGED <<df, mcap, store, fileExists, isOpen, runlog, npfiles, runs>>

\* leaving the with-block closes the store, also when put raised
HDFStoreExit(k) ==
    /\ pc[2] = k
    /\ pc[1] \in {"exit", "unwind"}
    /\ isOpen' = FALSE
    /\ pc' = IF pc[1] = "exit" THEN AfterWith(k) ELSE <<"aborted", k>>
    /\ UNCHANGED <<df, mcap, store, fileExists, runlog, npfiles, runs>>

\* fetch_openml('mnist_784') and the two np.save calls
SaveMnist ==
    /\ pc = <<"load", "mnist">>
    /\ npfiles' = npfiles \cup {"mnist/data", "mnist/labels"}
    /\ pc' = <<"load", "fashion_mnist">>
    /\ UNCHANGED <<df, mcap, store, fileExists, isOpen, runlog, runs>>

\* fetch_openml('Fashion-MNIST'), label_dict.csv and the two np.save calls
SaveFashionMnist ==
    /\ pc = <<"load", "fashion_mnist">>
    /\ npfiles' = npfiles \cup {"fashion_mnist/label_dict.csv",
                                "fashion_mnist/data", "fashion_mnist/labels"}
    /\ pc' = <<"load", FRED>>
    /\ UNCHANGED <<df, mcap, store, fileExists, isOpen, runlog, runs>>

ReadFred(downloads) ==
    /\ pc = <<"load", FRED>>
    /\ \E rows \in downloads : df' = [kind |-> "fred", rows |-> rows]
    /\ pc' = <<"resample", FRED>>
    /\ UNCHANGED <<mcap, store, fileExists, isOpen, runlog, npfiles, runs>>

\* df.rename(columns=securities).dropna(how='all').resample('B').mean()
Resample ==
    /\ pc = <<"resample", FRED>>
    /\ df' = [df EXCEPT !.rows = resample_B_mean(dropna_all(rename(@)))]
    /\ pc' = <<"with", FRED>>
    /\ UNCHANGED <<mcap, store, fileExists, isOpen, runlog, npfiles, runs>>

\* the operator runs the script again: a new process, the same files
Rerun ==
    /\ pc[1] \in {"done", "aborted"}
    /\ runs < MaxRuns
    /\ runs' = runs + 1
    /\ pc' = <<"load", PRICES>>
    /\ df' = NoTable
    /\ mcap' = NoTable
    /\ runlog' = <<>>
    /\ UNCHANGED <<store, fileExists, isOpen, npfiles>>

\* one execution of the script on the inputs in
Script(in) ==
    \/ LoadFails
    \/ ReadWikiPrices(in.prices)
    \/ SortIndex
    \/ ReadWikiStocks(in.stocks)
    \/ ReadSP500(in.sp500)
    \/ ReadHtml(in.html)
    \/ SetColumns
    \/ FetchListings(in.listings)
    \/ Dedup
    \/ McapSelect
    \/ McapConvert
    \/ McapMerge
    \/ Describe
    \/ ReadMeta(in.meta)
    \/ \E k \in Keys : HDFStoreEnter(k)
    \/ \E k \in Keys : Put(k)
    \/ \E k \in Keys : HDFStoreExit(k)
    \/ SaveMnist
    \/ SaveFashionMnist
    \/ ReadFred(in.fred)
    \/ Resample

\* a few inputs per source
FewInputs ==
    [prices |-> FewPriceCSVs, stocks |-> WikiStocksCSVs, sp500 |-> SP500Series,
     html |-> HtmlTables, listings |-> FewListings, meta |-> MetaCSVs,
     fred |-> FewFredDownloads]

\* one well-formed input per source
OneInput ==
    [prices |-> {<< [date |-> 1, ticker |-> 1, close |-> 10] >>},
     stocks |-> {"wiki_stocks_a"},
     sp500 |-> {"sp500_a"},
     html |-> {[ncols |-> 9, body |-> "constituents_a"]},
     listings |-> {<< [symbol |-> "AAA", marketcap |-> CapText(1, 5, "B")],
                      [symbol |-> "BBB", marketcap |-> CapText(1, 0, "M")] >>},
     meta |-> {[hasTicker |-> TRUE,
                rows |-> << [ticker |-> "AAA",
                             marketcap |-> [m |-> 15, e |-> 8]] >>]},
     fred |-> {FredRows([d \in Days |-> [c \in SeriesIds |-> Num(2)]])}]

\* the script on a few inputs per source, run up to MaxRuns times
Next == Script(FewInputs) \/ Rerun

Spec == Init /\ [][Next]_vars

\* one execution on every price CSV within the bounds
NextPrices == Script([OneInput EXCEPT !.prices = PriceCSVs])

SpecPrices == Init /\ [][NextPrices]_vars

\* one execution on every exchange listing within the bounds
NextListings == Script([OneInput EXCEPT !.listings = Listings])

SpecListings == Init /\ [][NextListings]_vars

\* one execution on every FRED download within the bounds
NextFred == Script([OneInput EXCEPT !.fred = FredDownloads])

SpecFred == Init /\ [][NextFred]_vars

(***************************************************************************)
(* Properties                                                              *)
(***************************************************************************)
\* the value d[.f] * 10^9 (suffix B) or d[.f] * 10^6 (suffix M)
ExpectedCap(d, f, suffix) ==
    LET k == IF suffix = "B" THEN 9 ELSE 6
    IN  IF f = 0 THEN [m |-> d, e |-> k] ELSE [m |-> 10 * d + f, e |-> k - 1]

AtMerge == pc = <<"mcap_merge", US_EQUITIES>>

\* C1: when the normalized column is merged into the table, every row whose
\* raw market cap is "$" + decimal d + "B" or "M" gets exactly d * 10^9 or
\* d * 10^6 respectively.
C1_ValidCapsScaled ==
    [][AtMerge =>
          \A i \in 1..Len(df.rows) :
             \A d \in 1..MaxDigit, f \in Fracs, x \in {"B", "M"} :
                df.rows[i].marketcap = CapText(d, f, x)
                   => df'.rows[i].marketcap = ExpectedCap(d, f, x)]_vars

C1_Witness ==
    /\ pc = <<"describe", US_EQUITIES>>
    /\ \E i, j \in 1..Len(df.rows) :
          /\ df.rows[i].marketcap = [m |-> 15, e |-> 8]
          /\ df.rows[j].marketcap = [m |-> 1, e |-> 6]

\* C2: when the normalized column is merged into the table, every row whose
\* raw market cap is missing or ends in a character other than "B" or "M"
\* has an absent market cap (NaN), not zero and not any other number.
C2_OtherCapsAbsent ==
    [][AtMerge =>
          \A i \in 1..Len(df.rows) :
             LET raw == df.rows[i].marketcap
             IN  (raw = NaN \/ raw.s[Len(raw.s)] \notin {"B", "M"})
                    => df'.rows[i].marketcap = NaN]_vars

C2_Witness ==
    /\ pc = <<"describe", US_EQUITIES>>
    /\ Len(df.rows) = 3
    /\ df.rows[1].marketcap = [m |-> 15, e |-> 8]
    /\ df.rows[2].marketcap = [m |-> 1, e |-> 6]
    /\ df.rows[3].marketcap = NaN

Unparseable == Str(<<"$", "1", ",", "5", "B">>)

\* C3: a market cap that ends in "B" or "M" but whose inner text is no
\* decimal number does not abort the run: the conversion step completes and
\* the other rows are normalized.
C3_UnparseableNonFatal ==
    [][(/\ pc = <<"mcap_convert", US_EQUITIES>>
        /\ \E i \in 1..Len(mcap.rows) : mcap.rows[i].marketcap = Unparseable)
          => pc'[1] # "aborted"]_vars

\* the rows of a table that have a market cap
WithCap(rows) == {i \in 1..Len(rows) : rows[i].marketcap # NaN}

WrittenThisRun(k) == \E i \in 1..Len(runlog) : runlog[i].key = k

\* C4 as stated: once 'us_equities/stocks' is written in a run, its table is
\* indexed by ticker and its marketcap column is the column the normalizer
\* produced in that run.
C4_StoredIsNormalized ==
    WrittenThisRun(US_EQUITIES) =>
        /\ store[US_EQUITIES][1].index = "ticker"
        /\ LET stored == store[US_EQUITIES][1].rows
           IN  {<<stored[i].ticker, stored[i].marketcap>> : i \in WithCap(stored)}
                  = {<<mcap.rows[i].symbol, mcap.rows[i].marketcap>> :
                        i \in WithCap(mcap.rows)}

\* C4 amended: the table written under 'us_equities/stocks' is the table read
\* from us_equities_meta_data.csv in that run, indexed by ticker, with that
\* file's marketcap values; nothing later in the run changes it.
C4_StoredIsMetaCsv ==
    [][/\ (pc = <<"put", US_EQUITIES>> /\ pc'[1] = "exit")
            => store'[US_EQUITIES] =
                  << [kind |-> "meta", index |-> "ticker", rows |-> df.rows] >>
       /\ (pc[2] \in {"mnist", "fashion_mnist", FRED} \/ pc[1] = "exit")
            => store'[US_EQUITIES] = store[US_EQUITIES]]_vars

C4_Witness ==
    /\ pc[1] = "done"
    /\ store[US_EQUITIES][1].rows[1].marketcap = [m |-> 7, e |-> 7]
    /\ mcap.rows[1].marketcap = [m |-> 15, e |-> 8]

\* C5: a failing source halts the run at that source; at that moment every
\* key written in the run holds exactly what it was given and belongs to an
\* earlier source, and nothing is written afterwards.
C5_FailureHalts ==
    [][/\ pc[1] = "unwind" => pc' = <<"aborted", pc[2]>>
       /\ (pc'[1] = "aborted" /\ pc[1] # "aborted")
            => /\ store' = store
               /\ \A i \in 1..Len(runlog') :
                     /\ SourcePos(runlog'[i].key) < SourcePos(pc'[2])
                     /\ store'[runlog'[i].key] = <<runlog'[i].value>>
       /\ pc[1] = "aborted" => store' = store]_vars

C5_Witness ==
    /\ runs = 2
    /\ pc = <<"aborted", SP500>>
    /\ Len(runlog) = 2
    /\ store[FRED] # Absent

\* C7: removing repeated symbols from the concatenated listing leaves exactly
\* one row per distinct symbol, the first one in concatenation order.
C7_DedupKeepsFirst ==
    [][pc = <<"dedup", US_EQUITIES>> =>
          LET old == df.rows
              new == df'.rows
              First(x) == CHOOSE i \in 1..Len(old) :
                             /\ old[i].symbol = x
                             /\ \A j \in 1..(i - 1) : old[j].symbol # x
          IN  /\ \A i \in 1..Len(old) :
                    Cardinality({j \in 1..Len(new) :
                                    new[j].symbol = old[i].symbol}) = 1
              /\ \A j \in 1..Len(new) :
                    /\ \E i \in 1..Len(old) : old[i].symbol = new[j].symbol
                    /\ new[j] = old[First(new[j].symbol)]]_vars

C7_Witness ==
    /\ pc = <<"dedup", US_EQUITIES>>
    /\ Len(df.rows) = 3
    /\ df.rows[1].symbol = df.rows[3].symbol
    /\ df.rows[1].marketcap # df.rows[3].marketcap
    /\ df.rows[2].symbol # df.rows[1].symbol

Occurrences(rows, r) == Cardinality({i \in 1..Len(rows) : rows[i] = r})

KeysAscending(rows) ==
    \A i \in 1..(Len(rows) - 1) :
        \/ rows[i].date < rows[i + 1].date
        \/ rows[i].date = rows[i + 1].date /\ rows[i].ticker <= rows[i + 1].ticker

\* C8: sorting keeps the multiset of rows of the price CSV, and the table
\* under 'quandl/wiki/prices' is that sorted table, its (date, ticker) keys
\* non-decreasing from row to row.
C8_PricesSorted ==
    [][/\ pc = <<"sort", PRICES>>
            => /\ \A r \in PriceRow :
                     Occurrences(df'.rows, r) = Occurrences(df.rows, r)
               /\ KeysAscending(df'.rows)
       /\ (pc = <<"put", PRICES>> /\ pc'[1] = "exit")
            => store'[PRICES] = <<df>>
       /\ store'[PRICES] # Absent => KeysAscending(store'[PRICES][1].rows)]_vars

C8_Witness ==
    /\ store[PRICES] # Absent
    /\ Len(store[PRICES][1].rows) = 3
    /\ store[PRICES][1].rows[1].date = store[PRICES][1].rows[2].date
    /\ store[PRICES][1].rows[1].ticker < store[PRICES][1].rows[2].ticker
    /\ store[PRICES][1].rows[2].date < store[PRICES][1].rows[3].date

\* C9: a write leaves its key holding exactly the value written, whatever
\* the key held before, and leaves every other key as it was.
C9_PutOverwrites ==
    [][Len(runlog') = Len(runlog) + 1 =>
          LET w == runlog'[Len(runlog')]
          IN  /\ store'[w.key] = <<w.value>>
              /\ \A k \in Keys \ {w.key} : store'[k] = store[k]]_vars

C9_Witness ==
    /\ runs = 2
    /\ pc = <<"exit", PRICES>>
    /\ store[STOCKS] # Absent
    /\ Len(store[PRICES][1].rows) = 1

\* C10 as stated: once a write has opened the store it stays open until the
\* process ends.
C10_StaysOpen ==
    [][(isOpen /\ pc'[1] \notin {"done", "aborted"}) => isOpen']_vars

\* C10 amended: the first with-block creates the store file if it is absent;
\* the store is open exactly while a with-block is being executed and is
\* closed while any source is loaded or transformed and when the run ends.
C10_OpenOnlyInWith ==
    /\ isOpen <=> pc[1] \in {"put", "exit", "unwind"}
    /\ isOpen => fileExists
    /\ ~fileExists => (store = [k \in Keys |-> Absent] /\ runlog = <<>>)
    /\ SourcePos(pc[2]) > 1 => fileExists

C10_Witness ==
    /\ pc = <<"load", STOCKS>>
    /\ fileExists
    /\ ~isOpen
    /\ store[PRICES] # Absent

\* the business day whose bin holds calendar day d
BinOf(d) == CHOOSE b \in (d - 2)..d :
               /\ Weekday(b) < 5
               /\ \A x \in (b + 1)..d : Weekday(x) >= 5

HasValue(row) == \E c \in DOMAIN row.vals : row.vals[c] # NaN

DatesAscending(rows) ==
    \A i \in 1..(Len(rows) - 1) : rows[i].date < rows[i + 1].date

\* C6 as stated: the resampled table has one row per business day, each
\* cell the average of its series' values dated that business day, and no
\* row for a day on which every series is missing.
C6_NoRowForMissingDay ==
    [][pc = <<"resample", FRED>> =>
          LET old == df.rows
              new == df'.rows
          IN  /\ DatesAscending(new)
              /\ \A j \in 1..Len(new) :
                    /\ Weekday(new[j].date) < 5
                    /\ HasValue(new[j])
                    /\ \A c \in SeriesIds :
                          LET obs == {i \in 1..Len(old) :
                                         /\ old[i].date = new[j].date
                                         /\ old[i].vals[c] # NaN}
                              cell == new[j].vals[securities[c]]
                          IN  IF obs = {} THEN cell = NaN
                              ELSE /\ cell # NaN
                                   /\ cell.num * Cardinality(obs)
                                         = cell.den * SumOver(old, obs, c)]_vars

\* C6 amended: the resampled table has exactly one row for every business
\* day from the bin of the first row that has a value to the bin of the last
\* one; weekend values belong to the preceding Friday's bin; each cell is
\* the average of its series' values in the bin and is missing when there
\* are none, so a business day inside the range on which every series is
\* missing keeps a row of missing values.
C6_RowPerBusinessDayInRange ==
    [][pc = <<"resample", FRED>> =>
          LET old == df.rows
              new == df'.rows
              valued == {i \in 1..Len(old) : HasValue(old[i])}
              first == CHOOSE i \in valued : \A j \in valued : i <= j
              last == CHOOSE i \in valued : \A j \in valued : j <= i
          IN  IF valued = {} THEN new = <<>>
              ELSE /\ DatesAscending(new)
                   /\ {new[j].date : j \in 1..Len(new)}
                         = {b \in BinOf(old[first].date)..BinOf(old[last].date) :
                               Weekday(b) < 5}
                   /\ \A j \in 1..Len(new) :
                         /\ DOMAIN new[j].vals = SeriesNames
                         /\ \A c \in SeriesIds :
                               LET obs == {i \in 1..Len(old) :
                                              /\ BinOf(old[i].date) = new[j].date
                                              /\ old[i].vals[c] # NaN}
                                   cell == new[j].vals[securities[c]]
                               IN  IF obs = {} THEN cell = NaN
                                   ELSE /\ cell # NaN
                                        /\ cell.num * Cardinality(obs)
                                              = cell.den * SumOver(old, obs, c)]_vars

C6_Witness ==
    /\ pc = <<"with", FRED>>
    /\ Len(df.rows) = 3
    /\ df.rows[1].vals["US Corp Master TRI"] = [num |-> 4, den |-> 2]
    /\ ~HasValue(df.rows[2])
    /\ HasValue(df.rows[3])

====
